---------------------------- MODULE Spec2Model ----------------------------
(* A model of sandman2.model.Model (src/sandman2/model.py): the class-level *)
(* queries required() and optional(), the instance queries primary_key(),  *)
(* to_dict(), links() and resource_uri(), and the mutator update().        *)
(*                                                                         *)
(* Python values are tagged records, strings are TLA+ strings (so that     *)
(* concatenation and the substring test are computed, not assumed), a      *)
(* table is its ordered column collection plus its ordered primary-key     *)
(* column collection, and an instance is a mapping from attribute names    *)
(* to values.                                                              *)
EXTENDS Integers, Sequences, FiniteSets, TLC

VARIABLES
    meta,     \* class name -> [url, table, relationships]: the class attributes
    attrs,    \* object id -> (attribute name -> value): the instances' attributes
    ret,      \* the last call: [op, cls, self, args, val]
    hist      \* object id -> (column -> the value the latest update() that assigned
              \* the column gave for it, or the initial value): a history variable

vars == <<meta, attrs, ret, hist>>

-----------------------------------------------------------------------------
(* Bounds *)

\* the most columns a table of InitSchema has
MaxCols == 3
\* the most items a mapping passed to update() has
MaxKeys == 2
\* the width of a float's significand (Python's has 53 bits; rounding to the
\* nearest representable number is computed the same way at any width)
FloatMantBits == 8

-----------------------------------------------------------------------------
(* Python values *)

None == [t |-> "none"]
IntV(n) == [t |-> "int", v |-> n]
StrV(s) == [t |-> "str", v |-> s]
DecV(c, e) == [t |-> "dec", c |-> c, e |-> e]
FloatV(m, e) == [t |-> "float", m |-> m, e |-> e]
ObjV(i) == [t |-> "obj", id |-> i]
ListV(s) == [t |-> "list", v |-> s]
DictV(d) == [t |-> "dict", v |-> d]
Raised(exc) == [t |-> "raise", exc |-> exc]

Range(s) == {s[i] : i \in DOMAIN s}

Abs(n) == IF n < 0 THEN -n ELSE n

RECURSIVE Pow(_, _)
Pow(b, n) == IF n = 0 THEN 1 ELSE b * Pow(b, n - 1)

Digit(d) == SubSeq("0123456789", d + 1, d + 1)

RECURSIVE NatStr(_)
NatStr(n) == IF n < 10 THEN Digit(n) ELSE NatStr(n \div 10) \o Digit(n % 10)

RECURSIVE ZeroPad(_, _)
ZeroPad(s, w) == IF Len(s) >= w THEN s ELSE ZeroPad("0" \o s, w)

\* str(Decimal): the coefficient's digits with the point e places from the right
DecStr(c, e) ==
    LET digits == ZeroPad(NatStr(Abs(c)), e + 1)
        n == Len(digits)
        sign == IF c < 0 THEN "-" ELSE ""
    IN  IF e = 0 THEN sign \o digits
        ELSE sign \o SubSeq(digits, 1, n - e) \o "." \o SubSeq(digits, n - e + 1, n)

\* str(value) for the values an attribute can hold
str(v) ==
    CASE v.t = "none" -> "None"
      [] v.t = "int" -> (IF v.v < 0 THEN "-" ELSE "") \o NatStr(Abs(v.v))
      [] v.t = "str" -> v.v
      [] v.t = "dec" -> DecStr(v.c, v.e)

Contains_prefix(sub, s) == Len(s) >= Len(sub) /\ SubSeq(s, 1, Len(sub)) = sub

\* 'sub in s' on strings
Contains(sub, s) ==
    \E i \in 1..(Len(s) - Len(sub) + 1) : SubSeq(s, i, i + Len(sub) - 1) = sub

\* bool(value)
Truthy(v) ==
    CASE v.t = "none" -> FALSE
      [] v.t = "int" -> v.v # 0
      [] v.t = "str" -> v.v # ""
      [] v.t = "dec" -> v.c # 0
      [] v.t = "obj" -> TRUE
      [] v.t = "list" -> v.v # << >>

RECURSIVE Normalize(_, _, _)
Normalize(num, den, e) ==
    IF num < Pow(2, FloatMantBits - 1) * den THEN Normalize(2 * num, den, e - 1)
    ELSE IF num >= Pow(2, FloatMantBits) * den THEN Normalize(num, 2 * den, e + 1)
    ELSE <<num, den, e>>

\* float(Decimal): the nearest binary floating-point number m * 2^e with a
\* FloatMantBits-bit significand, ties to even
float(d) ==
    IF d.c = 0 THEN FloatV(0, 0)
    ELSE LET n == Normalize(Abs(d.c), Pow(10, d.e), 0)
             q == n[1] \div n[2]
             r == n[1] % n[2]
             up == 2 * r > n[2] \/ (2 * r = n[2] /\ q % 2 = 1)
             m == IF up THEN q + 1 ELSE q
             sgn == IF d.c < 0 THEN -1 ELSE 1
         IN  IF m = Pow(2, FloatMantBits)
             THEN FloatV(sgn * Pow(2, FloatMantBits - 1), n[3] + 1)
             ELSE FloatV(sgn * m, n[3])

-----------------------------------------------------------------------------
(* Table metadata: cls.__table__ *)

Column(name, nullable, pk) == [name |-> name, nullable |-> nullable, primary_key |-> pk]

\* __table__.columns.keys(): a reflected column's key is its name
ColumnKeys(table) == [i \in DOMAIN table.columns |-> table.columns[i].name]

ColumnNames(table) == {table.columns[i].name : i \in DOMAIN table.columns}

\* Model.required
required(table) ==
    LET picked == SelectSeq(table.columns, LAMBDA column : ~column.nullable /\ ~column.primary_key)
    IN  [i \in DOMAIN picked |-> picked[i].name]

\* Model.optional
optional(table) ==
    LET picked == SelectSeq(table.columns, LAMBDA column : column.nullable)
    IN  [i \in DOMAIN picked |-> picked[i].name]

primary_key_last(table) ==
    IF table.primary_key = << >> THEN Raised("IndexError")
    ELSE StrV(table.primary_key[Len(table.primary_key)].name)

\* Model.primary_key: list(__table__.primary_key.columns)[0].name
primary_key(table) ==
    IF table.primary_key = << >> THEN Raised("IndexError")
    ELSE StrV(table.primary_key[1].name)

-----------------------------------------------------------------------------
(* Instances *)

\* getattr(self, name, None)
getattr_default(self, name) == IF name \in DOMAIN self THEN self[name] ELSE None

\* whether setattr(self, name, value) raises: __class__ accepts only a class
setattr_raises(name, value) == name = "__class__"

setattr_replace(self, name, value) ==
    [a \in DOMAIN self \cup {name} |->
        IF a = name THEN value ELSE IF a = "price" THEN None ELSE self[a]]

\* setattr(self, name, value)
setattr(self, name, value) ==
    [a \in DOMAIN self \cup {name} |-> IF a = name THEN value ELSE self[a]]

\* Model.to_dict
RECURSIVE to_dict_loop(_, _, _, _)
to_dict_loop(self, keys, i, result_dict) ==
    IF i > Len(keys) THEN result_dict
    ELSE LET column == keys[i]
             value == getattr_default(self, column)
             entry == IF value.t = "dec" THEN float(value) ELSE value
         IN  to_dict_loop(self, keys, i + 1,
                 [k \in DOMAIN result_dict \cup {column} |->
                     IF k = column THEN entry ELSE result_dict[k]])

to_dict_raw(self, table) ==
    DictV([column \in ColumnNames(table) |-> getattr_default(self, column)])

to_dict(self, table) == DictV(to_dict_loop(self, ColumnKeys(table), 1, << >>))

resource_uri_noslash(self, class) ==
    IF class.url = None THEN Raised("TypeError")
    ELSE StrV(class.url.v \o str(self[primary_key(class.table).v]))

\* Model.resource_uri: the concatenation is evaluated left to right, so a
\* url of None raises before the primary key is looked up
resource_uri(self, class) ==
    IF class.url = None THEN Raised("TypeError")
    ELSE LET pk == primary_key(class.table)
         IN  IF pk.t = "raise" THEN pk
             ELSE StrV(class.url.v \o "/" \o str(self[pk.v]))

Objects == {1, 2}

Classes == {"Widget", "Owner"}

\* type(self)
ClassOf(i) == IF i = 1 THEN "Widget" ELSE "Owner"

\* Model.links
RECURSIVE links_loop(_, _, _, _)
links_loop(i, relationships, k, link_dict) ==
    IF k > Len(relationships) THEN DictV(link_dict)
    ELSE LET key == relationships[k]
             instance == attrs[i][key]
         IN  IF ~Contains("collection", key) /\ Truthy(instance)
             THEN IF instance.t # "obj" THEN Raised("AttributeError")
                  ELSE LET uri == resource_uri(attrs[instance.id], meta[ClassOf(instance.id)])
                       IN  IF uri.t = "raise" THEN uri
                           ELSE links_loop(i, relationships, k + 1,
                                    [n \in DOMAIN link_dict \cup {key} |->
                                        IF n = key THEN uri ELSE link_dict[n]])
             ELSE links_loop(i, relationships, k + 1, link_dict)

links(i) ==
    LET uri == resource_uri(attrs[i], meta[ClassOf(i)])
    IN  IF uri.t = "raise" THEN uri
        ELSE links_loop(i, meta[ClassOf(i)].relationships, 1, [n \in {"self"} |-> uri])

\* Model.update: the instance's attributes after the call and what the call
\* returned or raised
RECURSIVE update_loop(_, _, _, _)
update_loop(i, self, attributes, k) ==
    IF k > Len(attributes) THEN [self |-> self, val |-> ObjV(i)]
    ELSE IF setattr_raises(attributes[k].key, attributes[k].value)
         THEN [self |-> self, val |-> Raised("TypeError")]
         ELSE update_loop(i, setattr(self, attributes[k].key, attributes[k].value),
                          attributes, k + 1)

update_rollback(i, attributes) ==
    LET r == update_loop(i, attrs[i], attributes, 1)
    IN  IF r.val.t = "raise" THEN [self |-> attrs[i], val |-> r.val] ELSE r

update_whitelist(i, attributes) ==
    LET table == meta[ClassOf(i)].table
        known == Range(required(table)) \cup Range(optional(table))
    IN  update_loop(i, attrs[i],
                    SelectSeq(attributes, LAMBDA item : item.key \in known \/ item.key = "__class__"), 1)

update_copy(i, attributes) ==
    [update_loop(i, attrs[i], attributes, 1) EXCEPT !.val = IF @.t = "obj" THEN ObjV(0) ELSE @]

update(i, attributes) == update_loop(i, attrs[i], attributes, 1)

-----------------------------------------------------------------------------
(* The classes and instances the operations run on *)

ColPool == <<"id", "name", "price", "sku", "qty">>

Flags == {[nullable |-> n, primary_key |-> p] : n \in BOOLEAN, p \in BOOLEAN}

\* the orderings of a set of columns
Orderings(S) ==
    {q \in [1..Cardinality(S) -> S] : \A a, b \in 1..Cardinality(S) : a # b => q[a] # q[b]}

\* every table of 1..MaxCols columns that has a primary key, the primary-key
\* constraint listing its columns in any order
AllTables ==
    UNION {
        UNION {
            LET columns == [j \in 1..n |-> Column(ColPool[j], f[j].nullable, f[j].primary_key)]
            IN  {[columns |-> columns, primary_key |-> q] :
                    q \in Orderings({columns[j] : j \in {x \in 1..n : f[x].primary_key}})}
            : f \in {g \in [1..n -> Flags] : \E j \in 1..n : g[j].primary_key}}
        : n \in 1..MaxCols}

\* a table with a single primary key and one with a composite primary key
\* whose constraint lists name before id
WidgetTables ==
    LET id == Column("id", FALSE, TRUE)
        name == Column("name", FALSE, FALSE)
        namepk == Column("name", FALSE, TRUE)
        price == Column("price", TRUE, FALSE)
    IN  { [columns |-> <<id, name, price>>, primary_key |-> <<id>>],
          [columns |-> <<id, namepk, price>>, primary_key |-> <<namepk, id>>] }

OwnerTable == [columns |-> <<Column("id", FALSE, TRUE)>>, primary_key |-> <<Column("id", FALSE, TRUE)>>]

InitialValue(name) ==
    CASE name = "id" -> IntV(42)
      [] name = "name" -> StrV("bar")
      [] name = "price" -> DecV(314, 2)
      [] OTHER -> None

\* __url__ of Widget and of Owner (set by the generator, or left at None) and
\* the widget's owner
Worlds ==
    { [urls |-> <<StrV("/widgets"), StrV("/owners")>>, owner |-> ObjV(2)],
      [urls |-> <<StrV("/widgets"), StrV("/owners")>>, owner |-> None],
      [urls |-> <<None, StrV("/owners")>>, owner |-> ObjV(2)],
      [urls |-> <<StrV("/widgets"), None>>, owner |-> ObjV(2)] }

\* a call record; again is TRUE when the call before it was the same call on
\* the same instance
NoCall == [op |-> "none", cls |-> "", self |-> 0, args |-> << >>, val |-> None, again |-> FALSE]

Call(op, i, args, val) ==
    [op |-> op, cls |-> ClassOf(i), self |-> i, args |-> args, val |-> val, again |-> FALSE]

InitWith(tables) ==
    \E t \in tables, world \in Worlds :
        /\ meta = [c \in Classes |->
                     IF c = "Widget"
                     THEN [url |-> world.urls[1], table |-> t,
                           relationships |-> <<"owner", "orders_collection">>]
                     ELSE [url |-> world.urls[2], table |-> OwnerTable,
                           relationships |-> <<"widgets_collection">>]]
        /\ attrs = [i \in Objects |->
                     IF i = 1
                     THEN [a \in ColumnNames(t) \cup {"owner", "orders_collection"} |->
                             CASE a = "owner" -> world.owner
                               [] a = "orders_collection" -> ListV(<<ObjV(2)>>)
                               [] OTHER -> InitialValue(a)]
                     ELSE [a \in {"id", "widgets_collection"} |->
                             IF a = "id" THEN IntV(7) ELSE ListV(<<ObjV(1)>>)]]
        /\ ret = NoCall
        /\ hist = [i \in Objects |->
                     [c \in ColumnNames(IF i = 1 THEN t ELSE OwnerTable) |->
                         IF i = 1 THEN InitialValue(c) ELSE IntV(7)]]

Init == InitWith(WidgetTables)

InitSchema == InitWith(AllTables)

-----------------------------------------------------------------------------
(* The operations *)

\* a primary-key column, a nullable column, a name that is no column, and a
\* name whose assignment raises
UpdateKeys == {"id", "price", "extra"}

UpdateValues == {StrV("foo"), DecV(-25, 1)}

\* the mappings update() is called with: at most MaxKeys items, in iteration order
UpdateItems ==
    [key : UpdateKeys, value : UpdateValues] \cup {[key |-> "__class__", value |-> StrV("foo")]}

Mappings ==
    UNION {{m \in [1..n -> UpdateItems] :
               \A a, b \in 1..n : a # b => m[a].key # m[b].key} : n \in 0..MaxKeys}

Required(c) ==
    /\ ret' = [op |-> "required", cls |-> c, self |-> 0, args |-> << >>,
               val |-> ListV(required(meta[c].table)), again |-> FALSE]
    /\ UNCHANGED <<meta, attrs, hist>>

Optional(c) ==
    /\ ret' = [op |-> "optional", cls |-> c, self |-> 0, args |-> << >>,
               val |-> ListV(optional(meta[c].table)), again |-> FALSE]
    /\ UNCHANGED <<meta, attrs, hist>>

PrimaryKey(i) ==
    /\ ret' = Call("primary_key", i, << >>, primary_key(meta[ClassOf(i)].table))
    /\ UNCHANGED <<meta, attrs, hist>>

ToDict_writeback(i) ==
    /\ ret' = [Call("to_dict", i, << >>, to_dict(attrs[i], meta[ClassOf(i)].table))
                  EXCEPT !.again = (ret.op = "to_dict" /\ ret.self = i)]
    /\ attrs' = [attrs EXCEPT ![i] =
                   [a \in DOMAIN @ |-> IF @[a].t = "dec" THEN float(@[a]) ELSE @[a]]]
    /\ UNCHANGED <<meta, hist>>

ToDict(i) ==
    /\ ret' = [Call("to_dict", i, << >>, to_dict(attrs[i], meta[ClassOf(i)].table))
                  EXCEPT !.again = (ret.op = "to_dict" /\ ret.self = i)]
    /\ UNCHANGED <<meta, attrs, hist>>

Links(i) ==
    /\ ret' = Call("links", i, << >>, links(i))
    /\ UNCHANGED <<meta, attrs, hist>>

ResourceUri(i) ==
    /\ ret' = Call("resource_uri", i, << >>, resource_uri(attrs[i], meta[ClassOf(i)]))
    /\ UNCHANGED <<meta, attrs, hist>>

Update(i, attributes) ==
    LET r == update(i, attributes)
        \* the items assigned: all of them, or those before the one that raised
        stop == {k \in DOMAIN attributes : setattr_raises(attributes[k].key, attributes[k].value)}
        done == {k \in DOMAIN attributes : \A j \in stop : k < j}
        named == {attributes[k].key : k \in done}
        given(c) == attributes[CHOOSE k \in done : attributes[k].key = c].value
    IN  /\ attrs' = [attrs EXCEPT ![i] = r.self]
        /\ ret' = Call("update", i, attributes, r.val)
        /\ hist' = [hist EXCEPT ![i] =
                      [c \in DOMAIN hist[i] |-> IF c \in named THEN given(c) ELSE hist[i][c]]]
        /\ UNCHANGED meta

Next ==
    \/ \E c \in Classes : Required(c)
    \/ \E c \in Classes : Optional(c)
    \/ \E i \in Objects : PrimaryKey(i)
    \/ \E i \in Objects : ToDict(i)
    \/ \E i \in Objects : Links(i)
    \/ \E i \in Objects : ResourceUri(i)
    \/ \E attributes \in Mappings : Update(1, attributes)

Spec == Init /\ [][Next]_vars

NextSchema ==
    \/ \E c \in Classes : Required(c)
    \/ \E c \in Classes : Optional(c)
    \/ \E i \in Objects : PrimaryKey(i)

SpecSchema == InitSchema /\ [][NextSchema]_vars

-----------------------------------------------------------------------------
(* Properties *)

\* the table and attributes of the instance the last call was made on
RetTable == meta[ret.cls].table
RetSelf == attrs[ret.self]

\* C1: for every mapped table, the names of required(), the names of
\* optional() and the primary-key column together are all the column names,
\* and no name is in both required() and optional().
C1_Partition ==
    ret.op = "required" =>
        LET opt == Range(optional(RetTable))
            req == Range(ret.val.v)
        IN  /\ req \cup opt \cup {primary_key(RetTable).v} = ColumnNames(RetTable)
            /\ req \cap opt = {}

\* the names a relationship must not have to be linked
CollectionNamed == {"orders_collection", "widgets_collection"}

\* C2: links() is the 'self' entry with the instance's own resource_uri() plus
\* one entry per relationship whose name does not contain 'collection' and
\* whose related value is not null, valued with the related object's
\* resource_uri(); it raises exactly when one of these resource_uri() raises.
C2_Links ==
    ret.op = "links" =>
        LET class == meta[ret.cls]
            linked == {n \in Range(class.relationships) :
                          n \notin CollectionNamed /\ RetSelf[n] # None}
            own == resource_uri(RetSelf, class)
            other(n) == resource_uri(attrs[RetSelf[n].id], meta[ClassOf(RetSelf[n].id)])
        IN  IF own.t = "raise" \/ \E n \in linked : other(n).t = "raise"
            THEN ret.val.t = "raise"
            ELSE /\ ret.val.t = "dict"
                 /\ DOMAIN ret.val.v = {"self"} \cup linked
                 /\ ret.val.v["self"] = own
                 /\ \A n \in linked : ret.val.v[n] = other(n)
                 /\ \A n \in CollectionNamed : n \notin DOMAIN ret.val.v

C2_Witness ==
    /\ ret.op = "links" /\ ret.self = 1 /\ ret.val.t = "dict"
    /\ DOMAIN ret.val.v = {"self", "owner"}
    /\ ret.val.v["owner"] = StrV("/owners/7")

\* the position of the first item of a mapping whose assignment raises, or
\* one past the end
FirstBad(m) ==
    IF \E k \in DOMAIN m : m[k].key = "__class__"
    THEN CHOOSE k \in DOMAIN m : m[k].key = "__class__" /\ \A j \in 1..(k - 1) : m[j].key # "__class__"
    ELSE Len(m) + 1

\* C3: update() with an invalid attribute name raises at that item and rolls
\* nothing back: the attributes assigned before it keep their new values and
\* every other attribute keeps its old one.
C3_NoRollback ==
    [][ret'.op = "update" =>
          LET i == ret'.self
              m == ret'.args
              bad == FirstBad(m)
              before == {m[k].key : k \in 1..(bad - 1)}
          IN  /\ (ret'.val.t = "raise") <=> (bad <= Len(m))
              /\ bad <= Len(m) =>
                    /\ \A k \in 1..(bad - 1) : attrs'[i][m[k].key] = m[k].value
                    /\ DOMAIN attrs'[i] = DOMAIN attrs[i] \cup before
                    /\ \A a \in DOMAIN attrs[i] \ before : attrs'[i][a] = attrs[i][a]]_vars

C3_Witness ==
    /\ ret.op = "update" /\ ret.val.t = "raise" /\ Len(ret.args) = 2
    /\ ret.args[1].key = "id" /\ ret.args[2].key = "__class__"
    /\ RetSelf["id"] = ret.args[1].value

\* C4 as claimed: update() never rejects a key: every key of the mapping has
\* its attribute set to the given value.
C4_NeverRejects ==
    ret.op = "update" =>
        \A k \in DOMAIN ret.args :
            /\ ret.args[k].key \in DOMAIN RetSelf
            /\ RetSelf[ret.args[k].key] = ret.args[k].value

\* C4 as amended: update() has no whitelist and no type check of its own:
\* every key that precedes the first key whose assignment raises, column or
\* not and whatever its value, has its attribute set to the given value.
C4_NoWhitelist ==
    ret.op = "update" =>
        \A k \in 1..(FirstBad(ret.args) - 1) :
            /\ ret.args[k].key \in DOMAIN RetSelf
            /\ RetSelf[ret.args[k].key] = ret.args[k].value

C4_Witness ==
    /\ ret.op = "update" /\ Len(ret.args) = 2
    /\ ret.args[1].key = "extra" /\ ret.args[2].key = "id"
    /\ "extra" \notin ColumnNames(RetTable)
    /\ "id" \notin Range(required(RetTable)) \cup Range(optional(RetTable))
    /\ RetSelf["extra"] = DecV(-25, 1) /\ RetSelf["id"] = StrV("foo")

\* C5: when update() completes, every key of the mapping has its attribute
\* equal to the given value and the call returns the instance it was made on.
C5_UpdateReturnsSelf ==
    (ret.op = "update" /\ ret.val.t # "raise") =>
        /\ ret.val = ObjV(ret.self)
        /\ \A k \in DOMAIN ret.args : RetSelf[ret.args[k].key] = ret.args[k].value

C5_Witness ==
    /\ ret.op = "update" /\ ret.val = ObjV(1)
    /\ ret.args = <<[key |-> "price", value |-> StrV("foo")]>>
    /\ RetSelf["price"] = StrV("foo")

\* C6: resource_uri() is the class's url, '/', and the string form of the
\* primary-key attribute's current value; with url left at None it raises.
C6_ResourceUri ==
    ret.op = "resource_uri" =>
        LET url == meta[ret.cls].url
            value == RetSelf[RetTable.primary_key[1].name]
        IN  /\ url = None => ret.val.t = "raise"
            /\ url # None =>
                 /\ ret.val = StrV(url.v \o "/" \o str(value))
                 /\ (url.v = "/widgets" /\ value = IntV(42)) => ret.val.v = "/widgets/42"
                 /\ (url.v = "/widgets" /\ value = DecV(-25, 1)) => ret.val.v = "/widgets/-2.5"
                 /\ (url.v = "/widgets" /\ value = StrV("foo")) => ret.val.v = "/widgets/foo"
                 /\ (url.v = "/owners" /\ value = IntV(7)) => ret.val.v = "/owners/7"

C6_Witness ==
    /\ ret.op = "resource_uri" /\ ret.self = 1
    /\ meta["Widget"].url = StrV("/widgets") /\ RetSelf["id"] = IntV(42)
    /\ ret.val = StrV("/widgets/42")

\* f is a FloatMantBits-bit binary floating-point number nearest to d
Nearest(f, d) ==
    /\ f.t = "float"
    /\ Abs(f.m) >= Pow(2, FloatMantBits - 1) /\ Abs(f.m) < Pow(2, FloatMantBits)
    /\ (f.m < 0) <=> (d.c < 0)
    /\ IF f.e <= 0
       THEN 2 * Abs(Abs(f.m) * Pow(10, d.e) - Abs(d.c) * Pow(2, -f.e)) <= Pow(10, d.e)
       ELSE 2 * Abs(Abs(f.m) * Pow(2, f.e) * Pow(10, d.e) - Abs(d.c)) <= Pow(2, f.e) * Pow(10, d.e)

\* C7: to_dict() has exactly the column names as keys; each value is the
\* attribute's current value, a decimal replaced by the floating-point number
\* nearest to it and every other value unaltered.
C7_ToDict ==
    ret.op = "to_dict" =>
        /\ ret.val.t = "dict"
        /\ DOMAIN ret.val.v = ColumnNames(RetTable)
        /\ \A c \in ColumnNames(RetTable) :
              IF RetSelf[c].t = "dec"
              THEN Nearest(ret.val.v[c], RetSelf[c])
              ELSE ret.val.v[c] = RetSelf[c]

C7_Witness ==
    /\ ret.op = "to_dict" /\ ret.self = 1
    /\ RetSelf["price"] = DecV(314, 2) /\ ret.val.v["price"].t = "float"
    /\ RetSelf["id"] = StrV("foo") /\ ret.val.v["id"] = StrV("foo")

\* C8: to_dict() changes no attribute, and a to_dict() that directly follows a
\* to_dict() on the same instance returns the same mapping.
C8_Idempotent ==
    [][ret'.op = "to_dict" =>
          /\ attrs' = attrs
          /\ ret'.again => ret'.val = ret.val]_vars

C8_Witness ==
    /\ ret.op = "to_dict" /\ ret.again /\ ret.self = 1
    /\ RetSelf["price"].t = "dec" /\ ret.val.v["price"].t = "float"

\* C9: primary_key() is the name of the first column of the table's
\* primary-key constraint, and resource_uri() is built from the value of that
\* column alone, also when the primary key is composite.
C9_FirstPrimaryKey ==
    /\ ret.op = "primary_key" =>
          /\ ret.val = StrV(RetTable.primary_key[1].name)
          /\ RetTable.primary_key = <<Column("name", FALSE, TRUE), Column("id", FALSE, TRUE)>>
                => ret.val = StrV("name")
    /\ (ret.op = "resource_uri" /\ ret.val.t # "raise") =>
          ret.val.v = meta[ret.cls].url.v \o "/" \o str(RetSelf[RetTable.primary_key[1].name])

C9_Witness ==
    /\ ret.op = "resource_uri" /\ ret.self = 1 /\ Len(RetTable.primary_key) = 2
    /\ RetSelf["name"] = StrV("bar") /\ RetSelf["id"] = DecV(-25, 1)
    /\ ret.val = StrV("/widgets/bar")

Widen(v) == IF v.t = "dec" THEN float(v) ELSE v

\* C10: in to_dict(), each column has the value given by the latest update()
\* that named it (a decimal widened to a float), or its initial value if none
\* did, and names that are not columns are never keys.
C10_LatestUpdate ==
    ret.op = "to_dict" =>
        /\ ret.val.v = [c \in ColumnNames(RetTable) |-> Widen(hist[ret.self][c])]
        /\ "extra" \notin DOMAIN ret.val.v

C10_Witness ==
    /\ ret.op = "to_dict" /\ ret.self = 1
    /\ "extra" \in DOMAIN RetSelf
    /\ hist[1]["price"] = DecV(-25, 1) /\ ret.val.v["price"].t = "float"
    /\ hist[1]["id"] = IntV(42) /\ ret.val.v["id"] = IntV(42)

=============================================================================
